---- MODULE Spec2Model ----
(***************************************************************************)
(* A model of url_text_fetcher/server.py: the input sanitizers, the URL    *)
(* safety validator, the bounded content fetcher, the rate-limited search  *)
(* client and the search-and-fetch orchestrator.                           *)
(*                                                                         *)
(* Python strings are TLA+ strings; a character is a string of length 1.   *)
(***************************************************************************)
EXTENDS Integers, Sequences, FiniteSets, TLC

(***************************************************************************)
(* String primitives (Python str methods used by the source).              *)
(***************************************************************************)
Char(s, i) == SubSeq(s, i, i)

SetMin(S) == CHOOSE m \in S : \A k \in S : m <= k

SetMax(S) == CHOOSE m \in S : \A k \in S : m >= k

\* s.startswith(p)
StartsWith(s, p) == Len(s) >= Len(p) /\ SubSeq(s, 1, Len(p)) = p

\* the 1-based positions at which p occurs in s
Occurrences(s, p) ==
    {i \in 1..(Len(s) - Len(p) + 1) : SubSeq(s, i, i + Len(p) - 1) = p}

\* s.find(p) + 1: the first position of p in s, 0 when there is none
Find(s, p) == IF Occurrences(s, p) = {} THEN 0 ELSE SetMin(Occurrences(s, p))

\* p in s
Contains(s, p) == Occurrences(s, p) # {}

\* s.replace(p, ''): one left-to-right pass over the non-overlapping occurrences
RECURSIVE Replace(_, _)
Replace(s, p) ==
    LET i == Find(s, p)
    IN  IF i = 0 \/ p = "" THEN s
        ELSE SubSeq(s, 1, i - 1) \o Replace(SubSeq(s, i + Len(p), Len(s)), p)

UpperLetters == "ABCDEFGHIJKLMNOPQRSTUVWXYZ"

LowerLetters == "abcdefghijklmnopqrstuvwxyz"

Digits == "0123456789"

LowerChar(c) ==
    IF Contains(UpperLetters, c) THEN Char(LowerLetters, Find(UpperLetters, c)) ELSE c

\* s.lower(), character by character (the recursion halves s)
RECURSIVE Lower(_)
Lower(s) ==
    IF s = "" THEN ""
    ELSE IF Len(s) = 1 THEN LowerChar(s)
    ELSE Lower(SubSeq(s, 1, Len(s) \div 2)) \o Lower(SubSeq(s, Len(s) \div 2 + 1, Len(s)))

\* ord(c) for the characters below 32 that the model's inputs use; every other
\* character of the model is printable
Ord(c) ==
    CASE c = "\t" -> 9
      [] c = "\n" -> 10
      [] c = "\f" -> 12
      [] c = "\r" -> 13
      [] OTHER    -> 32

\* ''.join(char for char in s if ord(char) >= 32 or char in '\t\n\r')
RECURSIVE StripControl(_)
StripControl(s) ==
    IF s = "" THEN ""
    ELSE IF Len(s) = 1
         THEN (IF Ord(s) >= 32 \/ s \in {"\t", "\n", "\r"} THEN s ELSE "")
    ELSE StripControl(SubSeq(s, 1, Len(s) \div 2))
         \o StripControl(SubSeq(s, Len(s) \div 2 + 1, Len(s)))

\* the characters str.strip() removes, among those of the model
Whitespace == {" ", "\t", "\n", "\r", "\f"}

\* s.lstrip(set): s from its first character outside set on
LStrip(s, set) ==
    LET kept == {i \in 1..Len(s) : Char(s, i) \notin set}
    IN  IF kept = {} THEN "" ELSE SubSeq(s, SetMin(kept), Len(s))

\* s.rstrip(set): s up to its last character outside set
RStrip(s, set) ==
    LET kept == {i \in 1..Len(s) : Char(s, i) \notin set}
    IN  IF kept = {} THEN "" ELSE SubSeq(s, 1, SetMax(kept))

\* s.strip()
Strip(s) == RStrip(LStrip(s, Whitespace), Whitespace)

\* s with every character of set removed
RECURSIVE RemoveChars(_, _)
RemoveChars(s, set) ==
    IF s = "" THEN ""
    ELSE IF Len(s) = 1 THEN (IF s \in set THEN "" ELSE s)
    ELSE RemoveChars(SubSeq(s, 1, Len(s) \div 2), set)
         \o RemoveChars(SubSeq(s, Len(s) \div 2 + 1, Len(s)), set)

\* c * n
RECURSIVE Repeat(_, _)
Repeat(c, n) ==
    IF n <= 0 THEN ""
    ELSE IF n = 1 THEN c
    ELSE Repeat(c, n \div 2) \o Repeat(c, n - n \div 2)

(***************************************************************************)
(* sanitize_query and sanitize_url.                                        *)
(***************************************************************************)
max_query_length == 500

dangerous_patterns == <<"<script", "javascript:", "data:", "vbscript:">>

\* the loop over dangerous_patterns from pattern number k on; query_lower is
\* computed once, before the loop, and the replace acts on query itself
RECURSIVE RemovePatterns(_, _, _)
RemovePatterns(query, query_lower, k) ==
    IF k > Len(dangerous_patterns) THEN query
    ELSE LET pattern == dangerous_patterns[k]
         IN  IF Contains(query_lower, pattern)
             THEN RemovePatterns(Replace(query, pattern), query_lower, k + 1)
             ELSE RemovePatterns(query, query_lower, k + 1)

\* sanitize_query without the cut to max_query_length
sanitize_query_uncut(query) ==
    IF query = "" THEN ""
    ELSE LET q1 == StripControl(query)
         IN  Strip(RemovePatterns(q1, Lower(q1), 1))

sanitize_query(query) ==
    IF query = "" THEN ""
    ELSE LET q1 == StripControl(query)
             q2 == IF Len(q1) > max_query_length
                   THEN SubSeq(q1, 1, max_query_length) ELSE q1
         IN  Strip(RemovePatterns(q2, Lower(q2), 1))

\* sanitize_url that puts https:// before a URL without a scheme
sanitize_url_adding_scheme(url) ==
    LET u == Strip(StripControl(url))
    IN  IF u = "" \/ StartsWith(u, "http://") \/ StartsWith(u, "https://")
        THEN u ELSE "https://" \o u

\* sanitize_url that also drops one trailing slash
sanitize_url_dropping_slash(url) ==
    IF url = "" THEN ""
    ELSE LET u == Strip(StripControl(url))
         IN  IF u # "" /\ ~(StartsWith(u, "http://") \/ StartsWith(u, "https://"))
             THEN ""
             ELSE IF u # "" /\ Char(u, Len(u)) = "/" THEN SubSeq(u, 1, Len(u) - 1) ELSE u

sanitize_url(url) ==
    IF url = "" THEN ""
    ELSE LET u == Strip(StripControl(url))
         IN  IF u # "" /\ ~(StartsWith(u, "http://") \/ StartsWith(u, "https://"))
             THEN "" ELSE u

(***************************************************************************)
(* urllib.parse.urlparse, as far as is_safe_url reads its result: the      *)
(* scheme and the hostname, or a ValueError.                               *)
(***************************************************************************)
SchemeChars == LowerLetters \o UpperLetters \o Digits \o "+-."

\* urlsplit strips these from the left of the URL, and removes \t \r \n
\* wherever they stand
C0ControlOrSpace == {" ", "\t", "\n", "\r", "\f"}

\* SplitResult.hostname: netloc.rpartition('@')[2], then the bracketed part or
\* the part before the first ':', lower-cased; "" stands for None
Hostname(netloc) ==
    LET ats      == Occurrences(netloc, "@")
        hostinfo == IF ats = {} THEN netloc
                    ELSE SubSeq(netloc, SetMax(ats) + 1, Len(netloc))
        open     == Find(hostinfo, "[")
        bracketed == SubSeq(hostinfo, open + 1, Len(hostinfo))
        close    == Find(bracketed, "]")
        colon    == Find(hostinfo, ":")
        hostname == IF open # 0
                    THEN (IF close = 0 THEN bracketed
                          ELSE SubSeq(bracketed, 1, close - 1))
                    ELSE (IF colon = 0 THEN hostinfo
                          ELSE SubSeq(hostinfo, 1, colon - 1))
    IN  Lower(hostname)

urlparse(url0) ==
    LET url    == RemoveChars(LStrip(url0, C0ControlOrSpace), {"\t", "\r", "\n"})
        i      == Find(url, ":")
        hasScheme ==
            /\ i > 1
            /\ Contains(LowerLetters \o UpperLetters, Char(url, 1))
            /\ \A k \in 1..(i - 1) : Contains(SchemeChars, Char(url, k))
        scheme == IF hasScheme THEN Lower(SubSeq(url, 1, i - 1)) ELSE ""
        rest   == IF hasScheme THEN SubSeq(url, i + 1, Len(url)) ELSE url
        after  == SubSeq(rest, 3, Len(rest))
        delims == {k \in 1..Len(after) : Char(after, k) \in {"/", "?", "#"}}
        netloc == IF ~StartsWith(rest, "//") THEN ""
                  ELSE IF delims = {} THEN after
                  ELSE SubSeq(after, 1, SetMin(delims) - 1)
        invalidIPv6 ==
            \/ Contains(netloc, "[") /\ ~Contains(netloc, "]")
            \/ Contains(netloc, "]") /\ ~Contains(netloc, "[")
    IN  IF invalidIPv6
        THEN [ok |-> FALSE, scheme |-> "", hostname |-> ""]
        ELSE [ok |-> TRUE, scheme |-> scheme, hostname |-> Hostname(netloc)]

(***************************************************************************)
(* IPv4 addresses are tuples of four octets.  socket.gethostbyname answers *)
(* a dotted-quad literal with that address and asks the resolver for every *)
(* other name.                                                             *)
(***************************************************************************)
RECURSIVE ToNat(_)
ToNat(s) ==
    IF s = "" THEN 0
    ELSE 10 * ToNat(SubSeq(s, 1, Len(s) - 1)) + (Find(Digits, Char(s, Len(s))) - 1)

IsOctet(s) ==
    /\ Len(s) \in 1..3
    /\ \A k \in 1..Len(s) : Contains(Digits, Char(s, k))
    /\ ToNat(s) <= 255

\* the four dot-separated parts of s, or <<>> when s has not exactly three dots
DotParts(s) ==
    LET dots == Occurrences(s, ".")
    IN  IF Cardinality(dots) # 3 THEN <<>>
        ELSE LET d1 == SetMin(dots)
                 d3 == SetMax(dots)
                 d2 == CHOOSE d \in dots : d # d1 /\ d # d3
             IN  <<SubSeq(s, 1, d1 - 1), SubSeq(s, d1 + 1, d2 - 1),
                   SubSeq(s, d2 + 1, d3 - 1), SubSeq(s, d3 + 1, Len(s))>>

IsIPv4Literal(s) ==
    /\ DotParts(s) # <<>>
    /\ \A k \in 1..4 : IsOctet(DotParts(s)[k])

ParseIPv4(s) == [k \in 1..4 |-> ToNat(DotParts(s)[k])]

Addr(ip) == [kind |-> "addr", ip |-> ip]

NoAnswer == [kind |-> "none", ip |-> <<>>]

\* what the resolver may answer for a name: one of these addresses, or a failure
\* (socket.gaierror; UnicodeError, which is a ValueError, for a name the idna
\* codec rejects; OSError for anything else)
DnsAddresses ==
    { <<93, 184, 216, 34>>, <<127, 0, 0, 1>>, <<10, 0, 0, 1>>, <<169, 254, 169, 254>> }

DnsFailures ==
    { [kind |-> "gaierror", ip |-> <<>>], [kind |-> "UnicodeError", ip |-> <<>>],
      [kind |-> "OSError", ip |-> <<>>] }

gethostbyname(hostname) ==
    IF IsIPv4Literal(hostname) THEN {Addr(ParseIPv4(hostname))}
    ELSE {Addr(ip) : ip \in DnsAddresses} \cup DnsFailures

\* ipaddress.IPv4Address.is_private / is_loopback / is_link_local
is_private(ip) ==
    \/ ip[1] \in {0, 10, 127}
    \/ ip[1] = 169 /\ ip[2] = 254
    \/ ip[1] = 172 /\ ip[2] \in 16..31
    \/ ip[1] = 192 /\ ip[2] = 0 /\ ip[3] = 0 /\ ip[4] \in (0..7) \cup {170, 171}
    \/ ip[1] = 192 /\ ip[2] = 0 /\ ip[3] = 2
    \/ ip[1] = 192 /\ ip[2] = 168
    \/ ip[1] = 198 /\ ip[2] \in {18, 19}
    \/ ip[1] = 198 /\ ip[2] = 51 /\ ip[3] = 100
    \/ ip[1] = 203 /\ ip[2] = 0 /\ ip[3] = 113
    \/ ip[1] >= 240

is_loopback(ip) == ip[1] = 127

is_link_local(ip) == ip[1] = 169 /\ ip[2] = 254

(***************************************************************************)
(* is_safe_url.  The checks made before the resolver is asked, then the    *)
(* check of its answer.                                                    *)
(***************************************************************************)
blocked_hostnames == {"localhost", "metadata.google.internal", "169.254.169.254", "metadata"}

\* lines 135-153: TRUE when none of the early returns (and no parse error) ends
\* the call before socket.gethostbyname
\* PassesHostChecks without the blocklist of host names (lines 146-153 left out)
PassesHostChecksNoBlocklist(url) ==
    LET parsed == urlparse(url)
    IN  IF ~parsed.ok THEN FALSE
        ELSE IF parsed.scheme \notin {"http", "https"} THEN FALSE
        ELSE IF parsed.hostname = "" THEN FALSE
        ELSE TRUE

PassesHostChecks(url) ==
    LET parsed == urlparse(url)
    IN  IF ~parsed.ok THEN FALSE
        ELSE IF parsed.scheme \notin {"http", "https"} THEN FALSE
        ELSE IF parsed.hostname = "" THEN FALSE
        ELSE IF Lower(parsed.hostname) \in blocked_hostnames THEN FALSE
        ELSE TRUE

\* the answers the resolver may give in a call of is_safe_url(url)
ResolverAnswers(url) ==
    IF PassesHostChecks(url) THEN gethostbyname(urlparse(url).hostname) ELSE {NoAnswer}

\* is_safe_url(url) when the resolver, if asked, gives answer
is_safe_url(url, answer) ==
    IF ~PassesHostChecks(url) THEN FALSE
    ELSE IF answer.kind = "gaierror" THEN FALSE
    ELSE IF answer.kind # "addr" THEN FALSE
    ELSE IF is_private(answer.ip) \/ is_loopback(answer.ip) \/ is_link_local(answer.ip)
         THEN FALSE
    ELSE TRUE

\* what a function call ended with: a returned string, or an exception
Returned(v) == [kind |-> "return", exc |-> "", val |-> v]

Raised(class, msg) == [kind |-> "raise", exc |-> class, val |-> msg]

NoResult == [kind |-> "none", exc |-> "", val |-> ""]

\* the same for brave_search, which returns a list of results
SearchReturned(results) == [kind |-> "return", exc |-> "", msg |-> "", results |-> results]

SearchRaised(class, msg) == [kind |-> "raise", exc |-> class, msg |-> msg, results |-> <<>>]

NoSearchResult == [kind |-> "none", exc |-> "", msg |-> "", results |-> <<>>]

\* no answer to the GET of brave_search
NoSearchResponse == [kind |-> "none", status |-> 0, items |-> <<>>, text |-> ""]

(***************************************************************************)
(* The pure functions applied to inputs drawn from bounded sets.           *)
(***************************************************************************)
VARIABLES pure_fn,     \* the function applied: "sanitize_query", "sanitize_url", "is_safe_url",
                       \* "brave_search"
          pure_arg,    \* its argument
          pure_dns,    \* is_safe_url: the resolver's answer in this call
          pure_stage,  \* "input" before the function has run, "output" after
          pure_out     \* the string returned (sanitizers)
VARIABLES pure_safe    \* the boolean returned (is_safe_url)
VARIABLES pure_resp,   \* brave_search: what answered its GET in this call
          pure_bret    \* what brave_search returned or raised

pureVars ==
    <<pure_fn, pure_arg, pure_dns, pure_stage, pure_out, pure_safe, pure_resp, pure_bret>>

\* pieces the sample queries are put together from
QueryFragments ==
    { "<script", "<SCRIPT>", "<scr", "ipt", "javascript:", "java", "script:",
      "data:", "Data:", "vbscript:", "dinosaurs", " ", "\f", "\t" }

MaxFragments == 3

RECURSIVE Concatenations(_, _)
Concatenations(pieces, n) ==
    IF n = 0 THEN {""}
    ELSE LET shorter == Concatenations(pieces, n - 1)
         IN  shorter \cup {a \o b : a \in shorter, b \in pieces}

\* queries at and beyond the length limit: padding, then one fragment
LongQueries ==
    { Repeat("x", n) \o f : n \in {max_query_length - 5, max_query_length, max_query_length + 5},
                            f \in {"", "<script", "data:", " "} }

SampleQueries == Concatenations(QueryFragments, MaxFragments) \cup LongQueries

SampleUrls ==
    { "https://www.example.com", "http://example.org/page",
      "https://api.github.com/repos/test", "http://localhost:8080",
      "http://127.0.0.1:3000", "http://192.168.1.1", "http://10.0.0.1",
      "http://172.16.0.1", "http://169.254.169.254/latest/meta-data/",
      "file:///etc/passwd", "ftp://internal.server.com",
      "http://LOCALHOST/admin", "HTTP://Example.COM/", "http://metadata/computeMetadata",
      "http://metadata.google.internal/", "http://user@10.0.0.1:80/",
      "http://8.8.8.8/", "http://172.32.0.1/", "http://172.31.255.255/", "http://[::1]/", "http://[::1", "http://", "http:/example.com",
      "example.com", "//example.com/x", " https://www.example.com ",
      "\fhttp://example.org/page", "http://exa\tmple.org/", "" }

PureInit ==
    /\ pure_stage = "input"
    /\ pure_out = ""
    /\ pure_safe = FALSE
    /\ pure_dns = NoAnswer
    /\ pure_resp = NoSearchResponse
    /\ pure_bret = NoSearchResult
    /\ \/ pure_fn = "sanitize_query" /\ pure_arg \in SampleQueries
       \/ pure_fn = "sanitize_url" /\ pure_arg \in SampleUrls
       \/ pure_fn = "is_safe_url" /\ pure_arg \in SampleUrls
       \/ pure_fn = "brave_search" /\ pure_arg = "dinosaurs"

\* no pure function is being applied (the other specifications)
PureIdle ==
    /\ pure_fn = "none"
    /\ pure_arg = ""
    /\ pure_dns = NoAnswer
    /\ pure_stage = "input"
    /\ pure_out = ""
    /\ pure_safe = FALSE
    /\ pure_resp = NoSearchResponse
    /\ pure_bret = NoSearchResult

ApplySanitizeQuery ==
    /\ pure_fn = "sanitize_query" /\ pure_stage = "input"
    /\ pure_out' = sanitize_query(pure_arg)
    /\ pure_stage' = "output"
    /\ UNCHANGED <<pure_fn, pure_arg, pure_dns, pure_safe, pure_resp, pure_bret>>

ApplySanitizeUrl ==
    /\ pure_fn = "sanitize_url" /\ pure_stage = "input"
    /\ pure_out' = sanitize_url(pure_arg)
    /\ pure_stage' = "output"
    /\ UNCHANGED <<pure_fn, pure_arg, pure_dns, pure_safe, pure_resp, pure_bret>>

ApplyIsSafeUrl ==
    /\ pure_fn = "is_safe_url" /\ pure_stage = "input"
    /\ \E answer \in ResolverAnswers(pure_arg) :
          /\ pure_dns' = answer
          /\ pure_safe' = is_safe_url(pure_arg, answer)
    /\ pure_stage' = "output"
    /\ UNCHANGED <<pure_fn, pure_arg, pure_out, pure_resp, pure_bret>>

(***************************************************************************)
(* brave_search: the throttle and the search request.                      *)
(*                                                                         *)
(* Time is counted in ticks of half the configured interval.  time.time()  *)
(* is a non-decreasing clock: now is the latest instant any thread has     *)
(* observed, and a step that reads the clock or starts a request happens   *)
(* at an instant not before it.  Threads are numbered from 1; thread t is  *)
(* at bpc[t] inside brave_search.                                          *)
(***************************************************************************)
VARIABLES BRAVE_API_KEY,       \* "" when not configured
          now,                 \* the clock
          rate_limit_lock,     \* 0 when free, else the thread holding it
          last_brave_request,  \* last_brave_request[0]
          bpc,                 \* per thread: its place in brave_search
          sleep_time,          \* per thread: the local sleep_time
          wake_at,             \* per thread: when its time.sleep may return
          bret,                \* per thread: what brave_search returned or raised
          search_gets,         \* the instants at which the search requests started
          nsearch              \* calls of brave_search started

throttleVars ==
    <<BRAVE_API_KEY, now, rate_limit_lock, last_brave_request, bpc, sleep_time,
      wake_at, bret, search_gets, nsearch>>

\* the threads that may be inside brave_search at once
NumThreads == 2

\* the calls of brave_search made in one behaviour
MaxSearchCalls == 3

\* how far beyond the starting instant the clock moves on its own; a thread that
\* sleeps moves it further
Horizon == 0

\* MIN_REQUEST_INTERVAL = 1.0 / BRAVE_RATE_LIMIT_RPS, in ticks
MIN_REQUEST_INTERVAL == 2

Threads == 1..NumThreads

\* time.time() when the process starts is far beyond last_brave_request's initial 0
StartTime == MIN_REQUEST_INTERVAL

MaxTime == StartTime + Horizon

\* the instants at which a step taken now may happen
Later == IF now >= MaxTime THEN {now} ELSE now..MaxTime

ThrottleInit ==
    /\ BRAVE_API_KEY \in {"", "BSA-key"}
    /\ now = StartTime
    /\ rate_limit_lock = 0
    /\ last_brave_request = 0
    /\ bpc = [t \in Threads |-> "idle"]
    /\ sleep_time = [t \in Threads |-> 0]
    /\ wake_at = [t \in Threads |-> 0]
    /\ bret = [t \in Threads |-> NoSearchResult]
    /\ search_gets = <<>>
    /\ nsearch = 0

\* BsCheckKey without the check of lines 248-250
BsCheckKeyAbsent(t) ==
    /\ bpc[t] = "check_key"
    /\ bpc' = [bpc EXCEPT ![t] = "acquire"]
    /\ UNCHANGED <<BRAVE_API_KEY, now, rate_limit_lock, last_brave_request,
                   sleep_time, wake_at, bret, search_gets, nsearch>>

\* lines 248-250
BsCheckKey(t) ==
    /\ bpc[t] = "check_key"
    /\ IF BRAVE_API_KEY = ""
       THEN /\ bret' = [bret EXCEPT ![t] =
                           SearchRaised("ValueError",
                                        "BRAVE_API_KEY environment variable is required")]
            /\ bpc' = [bpc EXCEPT ![t] = "done"]
       ELSE /\ bpc' = [bpc EXCEPT ![t] = "acquire"]
            /\ UNCHANGED bret
    /\ UNCHANGED <<BRAVE_API_KEY, now, rate_limit_lock, last_brave_request,
                   sleep_time, wake_at, search_gets, nsearch>>

\* line 253: with rate_limit_lock (entering)
BsAcquire(t) ==
    /\ bpc[t] = "acquire"
    /\ rate_limit_lock = 0
    /\ rate_limit_lock' = t
    /\ bpc' = [bpc EXCEPT ![t] = "read_time"]
    /\ UNCHANGED <<BRAVE_API_KEY, now, last_brave_request, sleep_time, wake_at,
                   bret, search_gets, nsearch>>

\* lines 254-258: current_time, time_since_last_request, sleep_time
BsReadTime(t) ==
    /\ bpc[t] = "read_time"
    /\ \E current_time \in Later :
          LET time_since_last_request == current_time - last_brave_request
          IN  /\ now' = current_time
              /\ IF time_since_last_request < MIN_REQUEST_INTERVAL
                 THEN /\ sleep_time' = [sleep_time EXCEPT ![t] =
                                           MIN_REQUEST_INTERVAL - time_since_last_request]
                      /\ bpc' = [bpc EXCEPT ![t] = "sleep"]
                 ELSE /\ sleep_time' = [sleep_time EXCEPT ![t] = 0]
                      /\ bpc' = [bpc EXCEPT ![t] = "stamp"]
    /\ UNCHANGED <<BRAVE_API_KEY, rate_limit_lock, last_brave_request, wake_at,
                   bret, search_gets, nsearch>>

\* BsSleep for a sleep that returns at once
BsNoSleep(t) ==
    /\ bpc[t] = "sleep"
    /\ wake_at' = [wake_at EXCEPT ![t] = now]
    /\ bpc' = [bpc EXCEPT ![t] = "sleeping"]
    /\ UNCHANGED <<BRAVE_API_KEY, now, rate_limit_lock, last_brave_request,
                   sleep_time, bret, search_gets, nsearch>>

\* line 259: time.sleep(sleep_time) is called; it returns no sooner than
\* sleep_time later
BsSleep(t) ==
    /\ bpc[t] = "sleep"
    /\ wake_at' = [wake_at EXCEPT ![t] = now + sleep_time[t]]
    /\ bpc' = [bpc EXCEPT ![t] = "sleeping"]
    /\ UNCHANGED <<BRAVE_API_KEY, now, rate_limit_lock, last_brave_request,
                   sleep_time, bret, search_gets, nsearch>>

\* line 259: time.sleep returns
BsWake(t) ==
    /\ bpc[t] = "sleeping"
    /\ now' = IF now >= wake_at[t] THEN now ELSE wake_at[t]
    /\ wake_at' = [wake_at EXCEPT ![t] = 0]
    /\ bpc' = [bpc EXCEPT ![t] = "stamp"]
    /\ UNCHANGED <<BRAVE_API_KEY, rate_limit_lock, last_brave_request, sleep_time,
                   bret, search_gets, nsearch>>

\* line 260: last_brave_request[0] = time.time(); sleep_time is not read again
BsStamp(t) ==
    /\ bpc[t] = "stamp"
    /\ \E at \in Later :
          /\ now' = at
          /\ last_brave_request' = at
    /\ sleep_time' = [sleep_time EXCEPT ![t] = 0]
    /\ bpc' = [bpc EXCEPT ![t] = "release"]
    /\ UNCHANGED <<BRAVE_API_KEY, rate_limit_lock, wake_at, bret, search_gets, nsearch>>

\* BsRelease for a lock that is never released
BsLeaveHoldingLock(t) ==
    /\ bpc[t] = "release"
    /\ bpc' = [bpc EXCEPT ![t] = "request"]
    /\ UNCHANGED <<BRAVE_API_KEY, now, rate_limit_lock, last_brave_request, sleep_time,
                   wake_at, bret, search_gets, nsearch>>

\* line 260/262: the with block is left
BsRelease(t) ==
    /\ bpc[t] = "release"
    /\ rate_limit_lock' = 0
    /\ bpc' = [bpc EXCEPT ![t] = "request"]
    /\ UNCHANGED <<BRAVE_API_KEY, now, last_brave_request, sleep_time, wake_at,
                   bret, search_gets, nsearch>>

\* line 277: requests.get to the search endpoint starts
BsGet(t) ==
    /\ bpc[t] = "request"
    /\ \E at \in Later :
          /\ now' = at
          /\ search_gets' = Append(search_gets, at)
    /\ bpc' = [bpc EXCEPT ![t] = "await"]
    /\ UNCHANGED <<BRAVE_API_KEY, rate_limit_lock, last_brave_request, sleep_time,
                   wake_at, bret, nsearch>>

(***************************************************************************)
(* The search endpoint's answers and lines 278-305.  An item of the JSON   *)
(* list data['web']['results'] is a function from the keys it has to their *)
(* values.                                                                 *)
(***************************************************************************)
Item(title, url, description) ==
    [k \in {"title", "url", "description"} |->
        CASE k = "title" -> title [] k = "url" -> url [] OTHER -> description]

\* an item without the url key
ItemNoUrl(title, description) ==
    [k \in {"title", "description"} |-> IF k = "title" THEN title ELSE description]

PublicItem == Item("Dinosaurs", "https://www.example.com", "All about dinosaurs")

LocalItem == Item("Admin", "http://localhost:8080", "An internal page")

EmptyUrlItem == Item("Nothing", "", "No link")

SearchResponses ==
    { [kind |-> "json", status |-> 200, items |-> <<>>, text |-> "{}"],
      [kind |-> "json", status |-> 200, items |-> <<PublicItem>>, text |-> "{\"web\": 1}"],
      [kind |-> "json", status |-> 200, items |-> <<LocalItem, PublicItem>>,
       text |-> "{\"web\": 2}"],
      [kind |-> "json", status |-> 200,
       items |-> <<ItemNoUrl("Untitled", "No url key"), EmptyUrlItem, PublicItem>>,
       text |-> "{\"web\": 3}"],
      [kind |-> "http_error", status |-> 422, items |-> <<>>, text |-> "invalid q"],
      [kind |-> "http_error", status |-> 429, items |-> <<>>, text |-> "quota of key"],
      [kind |-> "http_error", status |-> 500, items |-> <<>>, text |-> "stack trace"],
      \* ConnectionError, Timeout: a requests.RequestException
      [kind |-> "network_error", status |-> 0, items |-> <<>>, text |-> "timed out"],
      \* the body is no JSON: requests.JSONDecodeError, a requests.RequestException
      [kind |-> "json_error", status |-> 200, items |-> <<>>, text |-> "<html>"],
      \* a status for which raise_for_status does not raise (it raises from 400 to
      \* 599), with a body that is no JSON
      [kind |-> "json_error", status |-> 304, items |-> <<>>, text |-> "not modified"],
      \* JSON of another shape (an item that is no dict): AttributeError, TypeError
      [kind |-> "bad_shape", status |-> 200, items |-> <<>>, text |-> "[1]"] }

\* result.get(key, '')
Get(item, key, default) == IF key \in DOMAIN item THEN item[key] ELSE default

\* lines 281-288
ExtractResults(items) ==
    [i \in 1..Len(items) |->
        [title |-> Get(items[i], "title", ""),
         url |-> Get(items[i], "url", ""),
         description |-> Get(items[i], "description", "")]]

\* brave_search_result that lets the exception of the request through
brave_search_result_forwarding(resp) ==
    IF resp.kind = "json" THEN SearchReturned(ExtractResults(resp.items))
    ELSE SearchRaised("HTTPError", resp.text)

\* lines 278-305: what brave_search returns or raises for the answer resp
brave_search_result(resp) ==
    CASE resp.kind = "json" -> SearchReturned(ExtractResults(resp.items))
      [] resp.kind = "http_error" ->
            IF resp.status = 422
            THEN SearchRaised("Exception", "Search request was rejected - please check your query")
            ELSE IF resp.status = 429
            THEN SearchRaised("Exception",
                              "Rate limit exceeded - please wait before making another request")
            ELSE SearchRaised("Exception", "Search service temporarily unavailable")
      [] resp.kind \in {"network_error", "json_error"} ->
            SearchRaised("Exception", "Network error occurred during search")
      [] OTHER -> SearchRaised("Exception", "An unexpected error occurred during search")

\* lines 277-305 applied to one answer: brave_search past its rate limiting
ApplyBraveSearch ==
    /\ pure_fn = "brave_search" /\ pure_stage = "input"
    /\ \E resp \in SearchResponses :
          /\ pure_resp' = resp
          /\ pure_bret' = brave_search_result(resp)
    /\ pure_stage' = "output"
    /\ UNCHANGED <<pure_fn, pure_arg, pure_dns, pure_out, pure_safe>>

\* lines 277-305: the answer arrives and brave_search returns or raises
BsReceive(t) ==
    /\ bpc[t] = "await"
    /\ \E resp \in SearchResponses : bret' = [bret EXCEPT ![t] = brave_search_result(resp)]
    /\ bpc' = [bpc EXCEPT ![t] = "done"]
    /\ UNCHANGED <<BRAVE_API_KEY, now, rate_limit_lock, last_brave_request, sleep_time,
                   wake_at, search_gets, nsearch>>

\* a step of thread t inside brave_search
BraveSearchStep(t) ==
    \/ BsCheckKey(t)
    \/ BsAcquire(t)
    \/ BsReadTime(t)
    \/ BsSleep(t)
    \/ BsWake(t)
    \/ BsStamp(t)
    \/ BsRelease(t)
    \/ BsGet(t)
    \/ BsReceive(t)

(***************************************************************************)
(* Concurrent callers of brave_search: each thread calls it, takes what it *)
(* returns or raises, and may call again.                                  *)
(***************************************************************************)
ThCall(t) ==
    /\ bpc[t] = "idle"
    /\ nsearch < MaxSearchCalls
    /\ nsearch' = nsearch + 1
    /\ bpc' = [bpc EXCEPT ![t] = "check_key"]
    /\ UNCHANGED <<BRAVE_API_KEY, now, rate_limit_lock, last_brave_request, sleep_time,
                   wake_at, bret, search_gets>>

ThReturn(t) ==
    /\ bpc[t] = "done"
    /\ bpc' = [bpc EXCEPT ![t] = "idle"]
    /\ bret' = [bret EXCEPT ![t] = NoSearchResult]
    /\ UNCHANGED <<BRAVE_API_KEY, now, rate_limit_lock, last_brave_request, sleep_time,
                   wake_at, search_gets, nsearch>>

(***************************************************************************)
(* One call of an entry point, on the main thread (thread 1).              *)
(***************************************************************************)
VARIABLES pc,              \* the place of the call in the code
          op,              \* the entry point called
          url,             \* the local url (entry point, fetch_url_content)
          query,           \* brave_search_and_fetch: query
          max_results,     \* brave_search_and_fetch: max_results
          search_results,  \* brave_search_and_fetch: search_results
          idx,             \* the position of the for loop in search_results
          fetched_count,   \* brave_search_and_fetch: fetched_count
          response_parts,  \* brave_search_and_fetch: response_parts
          content,         \* what fetch_url_content returned
          ret              \* what the entry point returned or raised
VARIABLES http,            \* requests.get in progress: the request being made
          resp,            \* the response requests.get returned
          content_chunks,  \* the chunks retained
          total_size,      \* the local total_size
          kept_bytes,      \* the bytes of the body that content_chunks holds
          text_content,    \* what get_text gave, before the cut: <<>> or <<text>>
          links            \* fetch_page_links: the local links
VARIABLES verdict,         \* this fetch: what is_safe_url returned ("none" before)
          sent,            \* this fetch: the HTTP requests sent, [url, ip]
          page_gets,       \* this fetch: calls of requests.get
          chunk_reads,     \* this fetch: chunks taken from iter_content
          parsed,          \* this fetch: the body was given to BeautifulSoup
          fetch_calls,     \* this call: the calls of fetch_url_content, as the position
                           \* in search_results of the result fetched (0: no result)
          get_calls        \* this call: the calls of requests.get for a page, likewise

orchVars == <<query, max_results, search_results, idx, fetched_count, response_parts>>

callVars == <<pc, op, url, orchVars, content, ret>>

fetchVars == <<http, resp, content_chunks, total_size, kept_bytes, text_content, links>>

histVars == <<verdict, sent, page_gets, chunk_reads, parsed, fetch_calls, get_calls>>

vars == <<pureVars, throttleVars, callVars, fetchVars, histVars>>

Main == 1

\* CONTENT_LENGTH_LIMIT and MAX_RESPONSE_SIZE, as configured
CONTENT_LENGTH_LIMIT == 200

MAX_RESPONSE_SIZE == 3

\* the server sends at most MaxChunks chunks
MaxChunks == 2

\* the sizes a chunk may have: none (a keep-alive chunk), a part of what is allowed,
\* more than is allowed
ChunkSizes == {0, 1, MAX_RESPONSE_SIZE - 1, MAX_RESPONSE_SIZE + 1}

\* requests gives up (TooManyRedirects) after this many redirects
MaxRedirects == 1

\* str(n) for n >= 0
RECURSIVE ToStr(_)
ToStr(n) ==
    IF n < 10 THEN Char(Digits, n + 1)
    ELSE ToStr(n \div 10) \o Char(Digits, (n % 10) + 1)

\* sep.join(parts)
RECURSIVE Join(_, _)
Join(parts, sep) ==
    IF parts = <<>> THEN ""
    ELSE IF Len(parts) = 1 THEN parts[1]
    ELSE LET half == Len(parts) \div 2
         IN  Join(SubSeq(parts, 1, half), sep) \o sep
                \o Join(SubSeq(parts, half + 1, Len(parts)), sep)

\* the exception classes of the model that are a requests.RequestException
RequestExceptions ==
    {"ConnectionError", "Timeout", "TooManyRedirects", "HTTPError", "ChunkedEncodingError"}

NoHttp == [state |-> "idle", url |-> "", hops |-> 0, exc |-> ""]

NoResp == [status |-> 0, content_length |-> "", encoding |-> ""]

\* the responses a server may give: the status, the Content-Length header ("" when
\* there is none) and the encoding requests takes from Content-Type ("" when it
\* finds none: iter_content(decode_unicode=True) then gives the bytes as they come,
\* and otherwise the str decoded from them)
Responses ==
    { [status |-> st, content_length |-> cl, encoding |-> enc] :
        st \in {200, 404}, cl \in {"", "2", "7", "abc"},
        enc \in {"", "iso-8859-1", "utf-8"} }

\* how many bytes a character of a chunk was decoded from; len(chunk) counts the
\* bytes of a bytes chunk and the characters of a str chunk
CharWidths(encoding) == IF encoding = "utf-8" THEN {1, 2} ELSE {1}

\* where a server may redirect to
RedirectTargets == {"http://169.254.169.254/latest/meta-data/", "http://93.184.216.34/moved"}

\* what BeautifulSoup(...).get_text(...) may give for a body that is not empty
ExtractedTexts ==
    {"", "Hello world", Repeat("x", CONTENT_LENGTH_LIMIT), Repeat("x", CONTENT_LENGTH_LIMIT + 1)}

\* a page of many anchors: one more than 100 that fetch_page_links retains, and
\* among them an empty href and one that it drops
ManyHrefs ==
    [i \in 1..103 |-> IF i = 2 THEN "" ELSE IF i = 50 THEN "javascript:void(0)"
                      ELSE "/p" \o ToStr(i)]

\* the href values of the anchors BeautifulSoup may find in a body that is not empty
HrefLists ==
    { <<>>,
      <<"/about", "", "https://www.example.com/a", "mailto:x@example.com", "#top",
        "http://example.org/b">>,
      ManyHrefs }

RawUrls ==
    { " https://www.example.com \n", "http://localhost:8080/admin", "http://10.0.0.1",
      "example.com", "https://[::1", "", "ftp://example.com/file", " \t" }

\* the queries given: an ordinary one, one that sanitize_query empties, none, and
\* one as long as CONTENT_LENGTH_LIMIT
RawQueries == {"dinosaurs", "<script", "", Repeat("d", CONTENT_LENGTH_LIMIT)}

\* the values of max_results given: below and above the clamp, one that divides
\* CONTENT_LENGTH_LIMIT and the default (3), which does not
MaxResultsArgs == {0, 2, 3, 11}

\* the locals of fetch_url_content are gone
NoLocals ==
    /\ http' = NoHttp
    /\ resp' = NoResp
    /\ content_chunks' = <<>>
    /\ total_size' = 0
    /\ kept_bytes' = 0
    /\ text_content' = <<>>
    /\ links' = <<>>

\* no fetch is going on: no locals, and the history of a fetch that has not begun
FreshFetch ==
    /\ verdict' = "none"
    /\ sent' = <<>>
    /\ page_gets' = 0
    /\ chunk_reads' = 0
    /\ parsed' = FALSE
    /\ NoLocals

MainInit ==
    /\ pc = "idle"
    /\ op = "none"
    /\ url = ""
    /\ query = ""
    /\ max_results = 0
    /\ search_results = <<>>
    /\ idx = 0
    /\ fetched_count = 0
    /\ response_parts = <<>>
    /\ content = ""
    /\ ret = NoResult
    /\ http = NoHttp
    /\ resp = NoResp
    /\ content_chunks = <<>>
    /\ total_size = 0
    /\ kept_bytes = 0
    /\ text_content = <<>>
    /\ links = <<>>
    /\ verdict = "none"
    /\ sent = <<>>
    /\ page_gets = 0
    /\ chunk_reads = 0
    /\ parsed = FALSE
    /\ fetch_calls = <<>>
    /\ get_calls = <<>>

(***************************************************************************)
(* requests.get(url, ..., stream=True): the client resolves the host of    *)
(* the URL itself, sends the request, and follows the redirects it is      *)
(* answered with.                                                          *)
(***************************************************************************)
HttpConnect ==
    /\ http.state = "connect"
    /\ \E answer \in gethostbyname(urlparse(http.url).hostname) :
          IF answer.kind = "addr"
          THEN /\ sent' = Append(sent, [url |-> http.url, ip |-> answer.ip])
               /\ http' = [http EXCEPT !.state = "sent"]
          ELSE /\ http' = [http EXCEPT !.state = "error", !.exc = "ConnectionError"]
               /\ UNCHANGED sent
    /\ UNCHANGED <<pureVars, throttleVars, callVars, resp, content_chunks, total_size, kept_bytes,
                   text_content, links, verdict, page_gets, chunk_reads, parsed,
                   fetch_calls, get_calls>>

HttpReply ==
    /\ http.state = "sent"
    /\ \/ \E target \in RedirectTargets :
             /\ http' = IF http.hops < MaxRedirects
                        THEN [http EXCEPT !.state = "connect", !.url = target,
                                          !.hops = http.hops + 1]
                        ELSE [http EXCEPT !.state = "error", !.exc = "TooManyRedirects"]
             /\ UNCHANGED resp
       \/ \E r \in Responses :
             /\ resp' = r
             /\ http' = [http EXCEPT !.state = "response"]
       \/ /\ http' = [http EXCEPT !.state = "error", !.exc = "Timeout"]
          /\ UNCHANGED resp
    /\ UNCHANGED <<pureVars, throttleVars, callVars, content_chunks, total_size, kept_bytes,
                   text_content, links, histVars>>

(***************************************************************************)
(* fetch_url_content(url)                                                  *)
(***************************************************************************)
\* return s
FcReturn(s) ==
    /\ content' = s
    /\ pc' = "fc_return"
    /\ UNCHANGED ret

\* FcExcept without the second handler (except Exception): the exception leaves
\* fetch_url_content
FcExceptNarrow(exc) ==
    IF exc \in RequestExceptions
    THEN FcReturn("Error: Unable to fetch URL content")
    ELSE /\ pc' = "done"
         /\ ret' = IF op = "brave_search_and_fetch"
                   THEN Returned("Error: Search operation failed")
                   ELSE Raised(exc, "")
         /\ UNCHANGED content

\* FcExcept that calls requests.get again after a requests.RequestException
FcExceptRetry(exc) ==
    IF exc \in RequestExceptions
    THEN /\ pc' = "fc_get"
         /\ UNCHANGED <<content, ret>>
    ELSE FcReturn("Error: An unexpected error occurred while processing the URL")

\* an exception of class exc raised inside the try: the two handlers
FcExcept(exc) ==
    IF exc \in RequestExceptions
    THEN FcReturn("Error: Unable to fetch URL content")
    ELSE FcReturn("Error: An unexpected error occurred while processing the URL")

\* int(content_length) succeeds
IsDecimal(s) == s # "" /\ \A i \in 1..Len(s) : Contains(Digits, SubSeq(s, i, i))

\* DeclaredTooLarge for a fetch that does not look at Content-Length
DeclaredNeverTooLarge(content_length) == FALSE

\* int(content_length) > MAX_RESPONSE_SIZE
DeclaredTooLarge(content_length) == ToNat(content_length) > MAX_RESPONSE_SIZE

\* total_size > MAX_RESPONSE_SIZE
ExceedsLimit(size) == size > MAX_RESPONSE_SIZE

FcCheck ==
    /\ pc = "fc_check"
    /\ \E answer \in ResolverAnswers(url) :
          IF is_safe_url(url, answer)
          THEN /\ verdict' = "safe"
               /\ pc' = "fc_get"
               /\ UNCHANGED <<content, ret>>
          ELSE /\ verdict' = "unsafe"
               /\ FcReturn("Error: URL not allowed for security reasons")
    /\ UNCHANGED <<pureVars, throttleVars, op, url, orchVars, fetchVars, sent, page_gets,
                   chunk_reads, parsed, fetch_calls, get_calls>>

FcGet ==
    /\ pc = "fc_get"
    /\ page_gets' = page_gets + 1
    /\ get_calls' = Append(get_calls, idx)
    /\ http' = [state |-> "connect", url |-> url, hops |-> 0, exc |-> ""]
    /\ pc' = "fc_http"
    /\ UNCHANGED <<pureVars, throttleVars, op, url, orchVars, content, ret, resp,
                   content_chunks, total_size, kept_bytes, text_content, links, verdict,
                   sent, chunk_reads, parsed, fetch_calls>>

\* requests.get has returned or raised: raise_for_status and the Content-Length check
FcResponse ==
    /\ pc = "fc_http"
    /\ http.state \in {"response", "error"}
    /\ IF http.state = "error" THEN FcExcept(http.exc)
       ELSE IF resp.status >= 400 THEN FcExcept("HTTPError")
       ELSE IF resp.content_length # "" /\ ~IsDecimal(resp.content_length)
            THEN FcExcept("ValueError")
       ELSE IF resp.content_length # "" /\ DeclaredTooLarge(resp.content_length)
            THEN FcReturn("Error: Content too large (" \o resp.content_length
                          \o " bytes, max " \o ToStr(MAX_RESPONSE_SIZE) \o ")")
       ELSE /\ pc' = "fc_iter"
            /\ UNCHANGED <<content, ret>>
    /\ content_chunks' = <<>>
    /\ total_size' = 0
    /\ kept_bytes' = 0
    /\ UNCHANGED <<pureVars, throttleVars, op, url, orchVars, http, resp, text_content, links,
                   histVars>>

\* one turn of the loop over resp.iter_content: the next chunk, the end of the body,
\* or an exception of the read
FcChunk ==
    /\ pc = "fc_iter"
    /\ \/ /\ chunk_reads < MaxChunks
          /\ \E n \in ChunkSizes, width \in CharWidths(resp.encoding) :
                LET chunk == Repeat("x", n)
                IN  /\ chunk_reads' = chunk_reads + 1
                    /\ IF chunk = ""
                       THEN UNCHANGED <<pc, content, ret, content_chunks, total_size, kept_bytes>>
                       ELSE /\ total_size' = total_size + Len(chunk)
                            /\ IF ExceedsLimit(total_size')
                               THEN /\ FcReturn("Error: Content exceeded size limit ("
                                                \o ToStr(MAX_RESPONSE_SIZE) \o " bytes)")
                                    /\ UNCHANGED <<content_chunks, kept_bytes>>
                               ELSE /\ content_chunks' = Append(content_chunks, chunk)
                                    /\ kept_bytes' = kept_bytes + Len(chunk) * width
                                    /\ UNCHANGED <<pc, content, ret>>
       \/ /\ pc' = "fc_parse"
          /\ UNCHANGED <<content, ret, content_chunks, total_size, kept_bytes, chunk_reads>>
       \/ /\ FcReturn("Error: Unable to decode content as text")
          /\ UNCHANGED <<content_chunks, total_size, kept_bytes, chunk_reads>>
       \/ /\ FcExcept("ChunkedEncodingError")
          /\ UNCHANGED <<content_chunks, total_size, kept_bytes, chunk_reads>>
    /\ UNCHANGED <<pureVars, throttleVars, op, url, orchVars, http, resp, text_content, links,
                   verdict, sent, page_gets, parsed, fetch_calls, get_calls>>

\* Truncate that cuts and appends nothing
TruncateNoMarker(text, limit, marker) ==
    IF Len(text) > limit THEN SubSeq(text, 1, limit) ELSE text

\* Truncate that lets one character more through
TruncateLate(text, limit, marker) ==
    IF Len(text) > limit + 1 THEN SubSeq(text, 1, limit + 1) \o marker ELSE text

\* Truncate that cuts nothing
TruncateNothing(text, limit, marker) == text

\* text_content[:CONTENT_LENGTH_LIMIT] + marker when it is longer than the limit
Truncate(text, limit, marker) ==
    IF Len(text) > limit THEN SubSeq(text, 1, limit) \o marker ELSE text

\* ''.join(content_chunks), BeautifulSoup and the truncation
FcParse ==
    /\ pc = "fc_parse"
    /\ LET html_content == Join(content_chunks, "")
       IN  IF resp.encoding = "" /\ content_chunks # <<>>
           THEN /\ FcExcept("TypeError")
                /\ UNCHANGED <<parsed, text_content>>
           ELSE /\ parsed' = TRUE
                /\ \/ \E text \in (IF html_content = "" THEN {""} ELSE ExtractedTexts) :
                         /\ text_content' = <<text>>
                         /\ FcReturn(Truncate(text, CONTENT_LENGTH_LIMIT,
                                              "... [Content truncated]"))
                   \/ /\ FcExcept("ParserError")
                      /\ UNCHANGED text_content
    /\ UNCHANGED <<pureVars, throttleVars, op, url, orchVars, http, resp, content_chunks,
                   total_size, kept_bytes, links, verdict, sent, page_gets, chunk_reads,
                   fetch_calls, get_calls>>

(***************************************************************************)
(* fetch_url_text(url)                                                     *)
(***************************************************************************)
CallFetchUrlText ==
    /\ pc = "idle"
    /\ \E u \in RawUrls : url' = u
    /\ op' = "fetch_url_text"
    /\ pc' = "fut_sanitize"
    /\ UNCHANGED <<pureVars, throttleVars, orchVars, content, ret, fetchVars, histVars>>

FutSanitize ==
    /\ pc = "fut_sanitize"
    /\ url' = sanitize_url(url)
    /\ IF url' = ""
       THEN /\ ret' = Returned("Error: Invalid URL format")
            /\ pc' = "done"
            /\ UNCHANGED fetch_calls
       ELSE /\ pc' = "fc_check"
            /\ fetch_calls' = Append(fetch_calls, idx)
            /\ UNCHANGED ret
    /\ UNCHANGED <<pureVars, throttleVars, op, orchVars, content, fetchVars, verdict, sent,
                   page_gets, chunk_reads, parsed, get_calls>>

FutFinish ==
    /\ pc = "fc_return"
    /\ op = "fetch_url_text"
    /\ ret' = Returned("Text content from " \o url \o ":\n\n" \o content)
    /\ pc' = "done"
    /\ NoLocals
    /\ UNCHANGED <<pureVars, throttleVars, op, url, orchVars, content, histVars>>

(***************************************************************************)
(* fetch_page_links(url)                                                   *)
(***************************************************************************)
PlReturn(s) ==
    /\ ret' = Returned(s)
    /\ pc' = "done"
    /\ UNCHANGED content

\* an exception of class exc raised inside the try: the two handlers
PlExcept(exc) ==
    IF exc \in RequestExceptions
    THEN PlReturn("Error: Unable to fetch page")
    ELSE PlReturn("Error: Unable to process page")

CallFetchPageLinks ==
    /\ pc = "idle"
    /\ \E u \in RawUrls : url' = u
    /\ op' = "fetch_page_links"
    /\ pc' = "pl_sanitize"
    /\ UNCHANGED <<pureVars, throttleVars, orchVars, content, ret, fetchVars, histVars>>

PlSanitize ==
    /\ pc = "pl_sanitize"
    /\ url' = sanitize_url(url)
    /\ IF url' = ""
       THEN /\ ret' = Returned("Error: Invalid URL format")
            /\ pc' = "done"
       ELSE /\ pc' = "pl_check"
            /\ UNCHANGED ret
    /\ UNCHANGED <<pureVars, throttleVars, op, orchVars, content, fetchVars, histVars>>

PlCheck ==
    /\ pc = "pl_check"
    /\ \E answer \in ResolverAnswers(url) :
          IF is_safe_url(url, answer)
          THEN /\ verdict' = "safe"
               /\ pc' = "pl_get"
               /\ UNCHANGED <<content, ret>>
          ELSE /\ verdict' = "unsafe"
               /\ PlReturn("Error: URL not allowed for security reasons")
    /\ UNCHANGED <<pureVars, throttleVars, op, url, orchVars, fetchVars, sent, page_gets,
                   chunk_reads, parsed, fetch_calls, get_calls>>

PlGet ==
    /\ pc = "pl_get"
    /\ page_gets' = page_gets + 1
    /\ get_calls' = Append(get_calls, idx)
    /\ http' = [state |-> "connect", url |-> url, hops |-> 0, exc |-> ""]
    /\ pc' = "pl_http"
    /\ UNCHANGED <<pureVars, throttleVars, op, url, orchVars, content, ret, resp,
                   content_chunks, total_size, kept_bytes, text_content, links, verdict,
                   sent, chunk_reads, parsed, fetch_calls>>

PlResponse ==
    /\ pc = "pl_http"
    /\ http.state \in {"response", "error"}
    /\ IF http.state = "error" THEN PlExcept(http.exc)
       ELSE IF resp.status >= 400 THEN PlExcept("HTTPError")
       ELSE IF resp.content_length # "" /\ ~IsDecimal(resp.content_length)
            THEN PlExcept("ValueError")
       ELSE IF resp.content_length # "" /\ DeclaredTooLarge(resp.content_length)
            THEN PlReturn("Error: Page too large (" \o resp.content_length \o " bytes)")
       ELSE /\ pc' = "pl_iter"
            /\ UNCHANGED <<content, ret>>
    /\ content_chunks' = <<>>
    /\ total_size' = 0
    /\ kept_bytes' = 0
    /\ UNCHANGED <<pureVars, throttleVars, op, url, orchVars, http, resp, text_content, links,
                   histVars>>

PlChunk ==
    /\ pc = "pl_iter"
    /\ \/ /\ chunk_reads < MaxChunks
          /\ \E n \in ChunkSizes, width \in CharWidths(resp.encoding) :
                LET chunk == Repeat("x", n)
                IN  /\ chunk_reads' = chunk_reads + 1
                    /\ IF chunk = ""
                       THEN UNCHANGED <<pc, content, ret, content_chunks, total_size, kept_bytes>>
                       ELSE /\ total_size' = total_size + Len(chunk)
                            /\ IF ExceedsLimit(total_size')
                               THEN /\ PlReturn("Error: Page content too large")
                                    /\ UNCHANGED <<content_chunks, kept_bytes>>
                               ELSE /\ content_chunks' = Append(content_chunks, chunk)
                                    /\ kept_bytes' = kept_bytes + Len(chunk) * width
                                    /\ UNCHANGED <<pc, content, ret>>
       \/ /\ pc' = "pl_parse"
          /\ UNCHANGED <<content, ret, content_chunks, total_size, kept_bytes, chunk_reads>>
       \/ \E exc \in {"UnicodeDecodeError", "ChunkedEncodingError"} :
             /\ PlExcept(exc)
             /\ UNCHANGED <<content_chunks, total_size, kept_bytes, chunk_reads>>
    /\ UNCHANGED <<pureVars, throttleVars, op, url, orchVars, http, resp, text_content, links,
                   verdict, sent, page_gets, parsed, fetch_calls, get_calls>>

\* IsValidLink that retains every link
IsAnyLink(link) == TRUE

\* link.startswith(('http://', 'https://', '/'))
IsValidLink(link) ==
    StartsWith(link, "http://") \/ StartsWith(link, "https://") \/ StartsWith(link, "/")

\* the text returned for the href values found in the page
LinksText(page_url, hrefs) ==
    LET found == SelectSeq(hrefs, LAMBDA h : h # "")
        valid_links == SelectSeq(found, IsValidLink)
        shown == SubSeq(valid_links, 1, SetMin({100, Len(valid_links)}))
        links_text == Join([i \in 1..Len(shown) |-> "- " \o shown[i]], "\n")
    IN  "Links found on " \o page_url \o " (" \o ToStr(Len(valid_links))
            \o " total, showing first 100):\n\n" \o links_text

PlParse ==
    /\ pc = "pl_parse"
    /\ LET html_content == Join(content_chunks, "")
       IN  IF resp.encoding = "" /\ content_chunks # <<>>
           THEN /\ PlExcept("TypeError")
                /\ UNCHANGED <<parsed, links>>
           ELSE /\ parsed' = TRUE
                /\ \/ \E hrefs \in (IF html_content = "" THEN {<<>>} ELSE HrefLists) :
                         /\ links' = SelectSeq(hrefs, LAMBDA h : h # "")
                         /\ PlReturn(LinksText(url, hrefs))
                   \/ /\ PlExcept("ParserError")
                      /\ UNCHANGED links
    /\ UNCHANGED <<pureVars, throttleVars, op, url, orchVars, http, resp, content_chunks,
                   total_size, kept_bytes, text_content, verdict, sent, page_gets,
                   chunk_reads, fetch_calls, get_calls>>

(***************************************************************************)
(* brave_search_and_fetch(query, max_results)                              *)
(***************************************************************************)
OrchReturn(s) ==
    /\ ret' = Returned(s)
    /\ pc' = "done"

CallSearchAndFetch ==
    /\ pc = "idle"
    /\ \E q \in RawQueries : query' = q
    /\ \E m \in MaxResultsArgs : max_results' = m
    /\ op' = "brave_search_and_fetch"
    /\ pc' = "orch_sanitize"
    /\ UNCHANGED <<pureVars, throttleVars, url, search_results, idx, fetched_count,
                   response_parts, content, ret, fetchVars, histVars>>

\* Clamp that leaves max_results as it was given
ClampNone(m) == m

\* max(1, min(10, max_results))
Clamp(m) == SetMax({1, SetMin({10, m})})

OrchSanitize ==
    /\ pc = "orch_sanitize"
    /\ query' = sanitize_query(query)
    /\ IF query' = ""
       THEN /\ OrchReturn("Error: Invalid or empty search query")
            /\ UNCHANGED max_results
       ELSE /\ max_results' = Clamp(max_results)
            /\ pc' = "orch_search"
            /\ UNCHANGED ret
    /\ UNCHANGED <<pureVars, throttleVars, op, url, search_results, idx, fetched_count,
                   response_parts, content, fetchVars, histVars>>

\* brave_search(query, count=max_results * 2) is entered
OrchCallSearch ==
    /\ pc = "orch_search"
    /\ bpc[Main] = "idle"
    /\ bpc' = [bpc EXCEPT ![Main] = "check_key"]
    /\ nsearch' = nsearch + 1
    /\ pc' = "orch_searching"
    /\ UNCHANGED <<pureVars, BRAVE_API_KEY, now, rate_limit_lock, last_brave_request,
                   sleep_time, wake_at, bret, search_gets, op, url, orchVars, content,
                   ret, fetchVars, histVars>>

\* brave_search has returned or raised
OrchSearchDone ==
    /\ pc = "orch_searching"
    /\ bpc[Main] = "done"
    /\ IF bret[Main].kind = "raise"
       THEN /\ OrchReturn("Error: Search operation failed")
            /\ UNCHANGED <<search_results, response_parts, fetched_count, idx>>
       ELSE /\ search_results' = bret[Main].results
            /\ IF search_results' = <<>>
               THEN /\ OrchReturn("No search results found for query: " \o query)
                    /\ UNCHANGED <<response_parts, fetched_count, idx>>
               ELSE /\ response_parts' =
                           <<"Search Results for: " \o query, Repeat("=", 50), "">>
                    /\ fetched_count' = 0
                    /\ idx' = 1
                    /\ pc' = "orch_loop"
                    /\ UNCHANGED ret
    /\ bpc' = [bpc EXCEPT ![Main] = "idle"]
    /\ bret' = [bret EXCEPT ![Main] = NoSearchResult]
    /\ UNCHANGED <<pureVars, BRAVE_API_KEY, now, rate_limit_lock, last_brave_request,
                   sleep_time, wake_at, search_gets, nsearch, op, url, query, max_results,
                   content, fetchVars, histVars>>

\* one turn of the for loop, up to the call of fetch_url_content; or its end
OrchLoop ==
    /\ pc = "orch_loop"
    /\ IF idx > Len(search_results) \/ fetched_count >= max_results
       THEN /\ pc' = "orch_finish"
            /\ UNCHANGED <<url, response_parts, idx, fetchVars, histVars>>
       ELSE LET result == search_results[idx]
                head == <<ToStr(fetched_count + 1) \o ". " \o result.title,
                          "   URL: " \o result.url,
                          "   Description: " \o result.description>>
            IN  /\ url' = result.url
                /\ IF result.url # ""
                   THEN /\ response_parts' = response_parts \o head
                        /\ pc' = "fc_check"
                        /\ fetch_calls' = Append(fetch_calls, idx)
                        /\ FreshFetch
                        /\ UNCHANGED <<idx, get_calls>>
                   ELSE /\ response_parts' =
                               response_parts \o head \o <<"   Content: No URL available", "">>
                        /\ idx' = idx + 1
                        /\ pc' = "orch_loop"
                        /\ UNCHANGED <<fetchVars, histVars>>
    /\ UNCHANGED <<pureVars, throttleVars, op, query, max_results, search_results,
                   fetched_count, content, ret>>

\* fetch_url_content has returned: the rest of the turn
OrchAfterFetch ==
    /\ pc = "fc_return"
    /\ op = "brave_search_and_fetch"
    /\ LET max_content_per_result == CONTENT_LENGTH_LIMIT \div max_results
           shown == Truncate(content, max_content_per_result, "... [Truncated]")
       IN  response_parts' = response_parts \o <<"   Content: " \o shown, "">>
    /\ fetched_count' = fetched_count + 1
    /\ idx' = idx + 1
    /\ pc' = "orch_loop"
    /\ FreshFetch
    /\ UNCHANGED <<pureVars, throttleVars, op, url, query, max_results, search_results,
                   content, ret, fetch_calls, get_calls>>

OrchFinish ==
    /\ pc = "orch_finish"
    /\ LET final_response == Join(response_parts, "\n")
       IN  OrchReturn(Truncate(final_response, CONTENT_LENGTH_LIMIT,
                               "... [Response truncated]"))
    /\ UNCHANGED <<pureVars, throttleVars, op, url, orchVars, content, fetchVars, histVars>>

(***************************************************************************)
(* The specifications.                                                     *)
(***************************************************************************)
mainVars == <<callVars, fetchVars, histVars>>

\* the pure functions, each applied to an input
PureNext ==
    /\ ApplySanitizeQuery \/ ApplySanitizeUrl \/ ApplyIsSafeUrl \/ ApplyBraveSearch
    /\ UNCHANGED <<throttleVars, mainVars>>

PureSpecInit == PureInit /\ ThrottleInit /\ MainInit /\ BRAVE_API_KEY = ""

PureSpec == PureSpecInit /\ [][PureNext]_vars

\* brave_search called from several threads at once
ThrottleNext ==
    /\ \E t \in Threads : ThCall(t) \/ BraveSearchStep(t) \/ ThReturn(t)
    /\ UNCHANGED <<pureVars, mainVars>>

\* the process after its start: nothing called yet
Init == PureIdle /\ ThrottleInit /\ MainInit

ThrottleSpec == Init /\ [][ThrottleNext]_vars

\* a thread that can take a step does; the lock is fair: a thread that waits for
\* it while it is released again and again gets it
ThreadFairness(t) ==
    /\ WF_vars((BraveSearchStep(t) \/ ThReturn(t)) /\ UNCHANGED <<pureVars, mainVars>>)
    /\ SF_vars(BsAcquire(t) /\ UNCHANGED <<pureVars, mainVars>>)

FairThrottleSpec == ThrottleSpec /\ \A t \in Threads : ThreadFairness(t)

\* one call of an entry point on the main thread
Next ==
    \/ CallFetchUrlText \/ FutSanitize \/ FutFinish
    \/ FcCheck \/ FcGet \/ HttpConnect \/ HttpReply \/ FcResponse \/ FcChunk \/ FcParse
    \/ CallFetchPageLinks \/ PlSanitize \/ PlCheck \/ PlGet \/ PlResponse \/ PlChunk
    \/ PlParse
    \/ CallSearchAndFetch \/ OrchSanitize \/ OrchCallSearch \/ OrchSearchDone
    \/ OrchLoop \/ OrchAfterFetch \/ OrchFinish
    \/ BraveSearchStep(Main) /\ UNCHANGED <<pureVars, mainVars>>

Spec == Init /\ [][Next]_vars

(***************************************************************************)
(* The properties.                                                         *)
(***************************************************************************)
\* the condition of line 162
IsInternal(ip) == is_private(ip) \/ is_loopback(ip) \/ is_link_local(ip)

\* thread t is inside the with block of lines 253-260
InCritical(t) == bpc[t] \in {"read_time", "sleep", "sleeping", "stamp", "release"}

\* C1: every HTTP request sent for page content, the first of a GET and those the
\* client sends when it follows redirects, goes to an address that is not private,
\* loopback or link-local.
C1_NoInternalDestination == \A i \in 1..Len(sent) : ~IsInternal(sent[i].ip)

\* C2: is_safe_url returns true exactly when the URL parses, the scheme is http or
\* https, there is a hostname, the lower-cased hostname is not blocklisted, the
\* resolver gave an address and the address is not private, loopback or link-local;
\* it returns false when parsing or resolution fails, and for the named URLs.
C2_SafeIffAllConditions ==
    (pure_fn = "is_safe_url" /\ pure_stage = "output") =>
        LET u == urlparse(pure_arg)
            conditions ==
                /\ u.ok
                /\ u.scheme \in {"http", "https"}
                /\ u.hostname # ""
                /\ Lower(u.hostname) \notin
                       {"localhost", "metadata.google.internal", "169.254.169.254", "metadata"}
                /\ pure_dns.kind = "addr"
                /\ ~is_private(pure_dns.ip)
                /\ ~is_loopback(pure_dns.ip)
                /\ ~is_link_local(pure_dns.ip)
        IN  /\ pure_safe <=> conditions
            /\ (~u.ok \/ pure_dns.kind # "addr") => ~pure_safe
            /\ pure_arg \in {"file:///etc/passwd", "ftp://internal.server.com",
                             "http://localhost:8080", "http://127.0.0.1:3000",
                             "http://10.0.0.1", "http://192.168.1.1", "http://172.16.0.1",
                             "http://169.254.169.254/latest/meta-data/"} => ~pure_safe

\* C2, its case: is_safe_url has returned true for a public URL
C2_Witness ==
    /\ pure_fn = "is_safe_url" /\ pure_stage = "output"
    /\ pure_arg = "https://www.example.com"
    /\ pure_dns = Addr(<<93, 184, 216, 34>>)
    /\ pure_safe

\* C3: requests.get is called only after is_safe_url returned true in this fetch;
\* when it returned false no request is sent and what the operation yields is the
\* fixed string "Error: URL not allowed for security reasons".
C3_GuardedFetch ==
    /\ page_gets > 0 => verdict = "safe"
    /\ sent # <<>> => verdict = "safe"
    /\ verdict = "unsafe" =>
          /\ pc = "fc_return" => content = "Error: URL not allowed for security reasons"
          /\ pc = "done" => ret = Returned("Error: URL not allowed for security reasons")

\* C4: the search requests start at least MIN_REQUEST_INTERVAL apart.
C4_Spaced ==
    \A i, j \in 1..Len(search_gets) :
        i < j => search_gets[j] - search_gets[i] >= MIN_REQUEST_INTERVAL

\* C5: at most one thread is inside the with block (its sleep included), the lock is
\* held by a thread exactly while it is inside, and every call made with an API key
\* comes to send its request.
C5_Serialized ==
    /\ [](\A t1, t2 \in Threads : InCritical(t1) /\ InCritical(t2) => t1 = t2)
    /\ [](\A t \in Threads : InCritical(t) <=> rate_limit_lock = t)
    /\ \A t \in Threads :
          (bpc[t] = "check_key" /\ BRAVE_API_KEY # "") ~> (bpc[t] = "await")

\* C5, its case: a thread sleeps inside the with block while another waits for the
\* lock, after an earlier call has sent its request
C5_Witness ==
    \E t1, t2 \in Threads :
        bpc[t1] = "sleeping" /\ bpc[t2] = "acquire" /\ search_gets # <<>>

\* C6: with no API key, brave_search raises ValueError and goes no further, no
\* search request starts, and brave_search_and_fetch returns having sent nothing.
C6_NoKeyNoRequest ==
    BRAVE_API_KEY = "" =>
        /\ search_gets = <<>>
        /\ \A t \in Threads : bpc[t] \in {"idle", "check_key", "done"}
        /\ \A t \in Threads : bpc[t] = "done" =>
              bret[t].kind = "raise" /\ bret[t].exc = "ValueError"
        /\ op = "brave_search_and_fetch" =>
              /\ page_gets = 0 /\ sent = <<>>
              /\ pc \notin {"fc_check", "fc_get", "fc_http", "fc_iter", "fc_parse", "fc_return"}
              /\ pc = "done" => ret.kind = "return"

\* C6, its case: brave_search_and_fetch has returned after brave_search raised
C6_Witness ==
    /\ BRAVE_API_KEY = ""
    /\ op = "brave_search_and_fetch"
    /\ nsearch = 1
    /\ pc = "done"
    /\ ret = Returned("Error: Search operation failed")

\* C7: what sanitize_query returns contains none of the blocklisted substrings,
\* compared without regard to case.
C7_NoPatternLeft ==
    (pure_fn = "sanitize_query" /\ pure_stage = "output") =>
        \A k \in 1..Len(dangerous_patterns) :
            ~Contains(Lower(pure_out), dangerous_patterns[k])

\* C8: no operation raises to its caller: fetch_url_content hands back a string, and
\* a call that has ended has returned a string.
C8_Total ==
    /\ ret.kind # "raise"
    /\ pc = "fc_return" => content \in STRING
    /\ pc = "done" => ret.kind = "return" /\ ret.val \in STRING

\* C8, its case: an exception that is no RequestException arose in the fetch and
\* fetch_url_text returned
C8_Witness ==
    /\ pc = "done"
    /\ op = "fetch_url_text"
    /\ content = "Error: An unexpected error occurred while processing the URL"
    /\ ret.kind = "return"

C10_BoundedBody ==
    /\ kept_bytes <= MAX_RESPONSE_SIZE
    /\ total_size > MAX_RESPONSE_SIZE =>
          /\ ~parsed
          /\ \/ pc = "fc_return" /\ content = "Error: Content exceeded size limit (3 bytes)"
             \/ pc = "done" /\ ret = Returned("Error: Page content too large")

WithUrl(n) == {i \in 1..n : i <= Len(search_results) /\ search_results[i].url # ""}

\* C12: in brave_search_and_fetch the results are taken in upstream order; the
\* results fetched are exactly those with a URL among the results taken, each counts
\* in fetched_count whatever its fetch returned, and a result without a URL does
\* not count; no result is taken once max_results results have counted, so that
\* fetch_url_content is called at most max_results times, max_results being
\* clamped to 1..10; the loop ends only at the quota or at the end of the results.
C12_LoopQuota ==
    (op = "brave_search_and_fetch" /\ search_results # <<>>) =>
        LET fetching == pc \in {"fc_check", "fc_get", "fc_http", "fc_iter", "fc_parse",
                                "fc_return"}
            taken == IF fetching THEN idx ELSE idx - 1
        IN  /\ max_results \in 1..10
            /\ Len(fetch_calls) <= max_results
            /\ \A i, j \in 1..Len(fetch_calls) : i < j => fetch_calls[i] < fetch_calls[j]
            /\ {fetch_calls[i] : i \in 1..Len(fetch_calls)} = WithUrl(taken)
            /\ fetched_count = Cardinality(WithUrl(idx - 1))
            /\ Cardinality(WithUrl(taken - 1)) < max_results
            /\ pc \in {"orch_finish", "done"} =>
                  idx > Len(search_results) \/ fetched_count = max_results

\* C12, its case: with max_results = 1 the results without a URL were passed, the
\* third result was fetched and the call has returned
C12_Witness ==
    /\ op = "brave_search_and_fetch"
    /\ pc = "done"
    /\ max_results = 1
    /\ Len(search_results) = 3
    /\ fetch_calls = <<3>>
    /\ fetched_count = 1

\* the line that opens the entry numbered k, for the result at position i
EntryLine(k, i) == "\n" \o ToStr(k) \o ". " \o search_results[i].title \o "\n"

\* C13: when the search gave at least max_results results and the first max_results
\* of them all have a URL, the report brave_search_and_fetch returns holds exactly
\* max_results numbered entries: the entries 1..max_results, for the first
\* max_results results in their order, and no entry numbered max_results + 1.
C13_NumberedEntries ==
    (/\ op = "brave_search_and_fetch"
     /\ pc = "done"
     /\ search_results # <<>>
     /\ Len(search_results) >= max_results
     /\ \A i \in 1..max_results : search_results[i].url # "") =>
        /\ fetch_calls = [k \in 1..max_results |-> k]
        /\ \A k \in 1..max_results : Contains(ret.val, EntryLine(k, k))
        /\ \A k, l \in 1..max_results :
              k < l => Find(ret.val, EntryLine(k, k)) < Find(ret.val, EntryLine(l, l))
        /\ \A i \in 1..Len(search_results) : ~Contains(ret.val, EntryLine(max_results + 1, i))

\* C14: a report of brave_search_and_fetch that reaches the final length check is
\* returned whole when it is at most CONTENT_LENGTH_LIMIT characters long, and
\* otherwise as its first CONTENT_LENGTH_LIMIT characters followed by the marker
\* "... [Response truncated]": it is at most CONTENT_LENGTH_LIMIT plus the length of
\* the marker long.  The strings returned before that check are not cut: the two
\* fixed error strings and "No search results found for query: " followed by the
\* sanitized query, at most 35 + max_query_length characters.
C14_BoundedReport ==
    (op = "brave_search_and_fetch" /\ pc = "done") =>
        LET marker == "... [Response truncated]"
            final_response == Join(response_parts, "\n")
        IN  /\ ret.kind = "return"
            /\ IF search_results # <<>>
               THEN /\ Len(ret.val) <= CONTENT_LENGTH_LIMIT + Len(marker)
                    /\ IF Len(final_response) > CONTENT_LENGTH_LIMIT
                       THEN /\ Len(ret.val) = CONTENT_LENGTH_LIMIT + Len(marker)
                            /\ SubSeq(ret.val, 1, CONTENT_LENGTH_LIMIT)
                                  = SubSeq(final_response, 1, CONTENT_LENGTH_LIMIT)
                            /\ SubSeq(ret.val, CONTENT_LENGTH_LIMIT + 1, Len(ret.val)) = marker
                       ELSE ret.val = final_response
               ELSE /\ ret.val \in {"Error: Invalid or empty search query",
                                    "Error: Search operation failed",
                                    "No search results found for query: " \o query}
                    /\ Len(ret.val) <= 35 + max_query_length

\* C14, its case: a report longer than the limit has been cut and returned
C14_Witness ==
    /\ op = "brave_search_and_fetch"
    /\ pc = "done"
    /\ search_results # <<>>
    /\ Len(Join(response_parts, "\n")) > CONTENT_LENGTH_LIMIT
    /\ Len(ret.val) = CONTENT_LENGTH_LIMIT + 24

\* C14 as stated: every string brave_search_and_fetch returns is at most
\* CONTENT_LENGTH_LIMIT plus the length of "... [Response truncated]" long.
C14_EveryReturnBounded ==
    (op = "brave_search_and_fetch" /\ pc = "done") =>
        Len(ret.val) <= CONTENT_LENGTH_LIMIT + Len("... [Response truncated]")

\* C15: fetch_page_links retains the href values that start with http://, https://
\* or /, in the order of the page; it states how many it retained, and lists the
\* first 100 of them, one per line: never more than 100 lines.
C15_LinksListed ==
    (op = "fetch_page_links" /\ pc = "done" /\ StartsWith(ret.val, "Links found on ")) =>
        LET Retained(l) == \E p \in {"http://", "https://", "/"} :
                              Len(l) >= Len(p) /\ SubSeq(l, 1, Len(p)) = p
            kept == SelectSeq(links, Retained)
            listed == IF Len(kept) > 100 THEN 100 ELSE Len(kept)
            head == "Links found on " \o url \o " (" \o ToStr(Len(kept))
                       \o " total, showing first 100):\n\n"
            lines == SubSeq(ret.val, Len(head) + 1, Len(ret.val))
        IN  /\ StartsWith(ret.val, head)
            /\ Cardinality(Occurrences("\n" \o lines, "\n- ")) = listed
            /\ listed <= 100
            /\ lines = Join([i \in 1..listed |-> "- " \o kept[i]], "\n")

\* C15, its case: a page with 101 links to retain; 100 are listed and 101 stated
C15_Witness ==
    /\ op = "fetch_page_links"
    /\ pc = "done"
    /\ Len(links) = 102
    /\ Contains(ret.val, " (101 total, showing first 100):\n\n- /p1\n- /p3\n")
    /\ Cardinality(Occurrences(ret.val, "\n- ")) = 100
    /\ ~Contains(ret.val, "/p103")

\* C16: when sanitize_url gives the empty string, which it does exactly for an
\* argument that is empty or that, without its control characters and stripped,
\* does not begin with http:// or https:// (it prepends no scheme),
\* fetch_url_text and fetch_page_links return "Error: Invalid URL format"; when
\* sanitize_query gives the empty string brave_search_and_fetch returns
\* "Error: Invalid or empty search query".  Up to the sanitizer nothing was
\* resolved or requested, the rejecting step leaves the rate limiter, the fetch
\* and its history as they are, and no step follows the return.
C16_RejectionFinal ==
    /\ [](pc \in {"fut_sanitize", "pl_sanitize", "orch_sanitize"} =>
             /\ verdict = "none" /\ sent = <<>> /\ http = NoHttp
             /\ get_calls = <<>> /\ fetch_calls = <<>>
             /\ search_gets = <<>> /\ nsearch = 0
             /\ last_brave_request = 0 /\ rate_limit_lock = 0)
    /\ [][/\ pc \in {"fut_sanitize", "pl_sanitize"} =>
                LET u == Strip(StripControl(url))
                    rejected == url = "" \/ (~StartsWith(u, "http://") /\ ~StartsWith(u, "https://"))
                IN  /\ rejected <=> sanitize_url(url) = ""
                    /\ ~rejected => url' = u /\ pc' # "done"
                    /\ rejected =>
                          /\ pc' = "done"
                          /\ ret' = Returned("Error: Invalid URL format")
                          /\ UNCHANGED <<throttleVars, fetchVars, histVars>>
          /\ (pc = "orch_sanitize" /\ sanitize_query(query) = "") =>
                /\ pc' = "done"
                /\ ret' = Returned("Error: Invalid or empty search query")
                /\ UNCHANGED <<throttleVars, fetchVars, histVars>>
          /\ pc = "done" => UNCHANGED vars]_vars

\* C16, its case: fetch_page_links has rejected a URL without a scheme
C16_Witness ==
    /\ op = "fetch_page_links"
    /\ pc = "done"
    /\ ret = Returned("Error: Invalid URL format")
    /\ verdict = "none"
    /\ get_calls = <<>>

\* C17: nothing is tried again.  In one call fetch_url_text and fetch_page_links
\* call requests.get at most once; brave_search sends at most one request to the
\* search endpoint; brave_search_and_fetch searches at most once, calls
\* fetch_url_content at most once for a search result and requests.get at most once
\* inside each of these calls; once a fetch or the search has failed, no request
\* for the same result, and no search request, is made in the call.
C17_NoRetry ==
    /\ [](/\ page_gets <= 1
          /\ Len(search_gets) <= nsearch /\ nsearch <= 1
          /\ op \in {"fetch_url_text", "fetch_page_links"} =>
                Len(get_calls) <= 1 /\ Len(fetch_calls) <= 1 /\ search_gets = <<>>
          /\ \A i, j \in 1..Len(fetch_calls) : i < j => fetch_calls[i] # fetch_calls[j]
          /\ \A i, j \in 1..Len(get_calls) : i < j => get_calls[i] # get_calls[j]
          /\ op # "fetch_page_links" =>
                \A i \in 1..Len(get_calls) : \E j \in 1..Len(fetch_calls) :
                   get_calls[i] = fetch_calls[j])
    /\ [][/\ get_calls' # get_calls =>
                /\ get_calls' = Append(get_calls, idx)
                /\ \A i \in 1..Len(get_calls) : get_calls[i] # idx
                /\ http.state = "idle"
          /\ search_gets' # search_gets =>
                /\ search_gets = <<>>
                /\ bret[Main].kind = "none"]_vars

\* C17, its case: in brave_search_and_fetch the fetch of the second result failed
\* after its one request, and the call has returned
C17_Witness ==
    /\ op = "brave_search_and_fetch"
    /\ pc = "done"
    /\ Len(search_gets) = 1
    /\ fetch_calls = <<1, 2>>
    /\ get_calls = <<2>>
    /\ \E i \in 1..Len(response_parts) :
          response_parts[i] = "   Content: Error: Unable to fetch URL content"

\* C18: what brave_search raises for an answer to its request is one of five fixed
\* messages: for status 422 "Search request was rejected - please check your
\* query", for 429 "Rate limit exceeded - please wait before making another
\* request", for any other status from 400 to 599 "Search service temporarily
\* unavailable", for a failure of the network "Network error occurred during
\* search", and for anything else that fails that message or "An unexpected error
\* occurred during search"; the message never holds the body of the answer or the
\* text of the exception.
C18_ClosedMessages ==
    (pure_fn = "brave_search" /\ pure_stage = "output") =>
        LET msg == pure_bret.msg
            status == pure_resp.status
            raised == pure_bret.kind = "raise"
        IN  /\ raised =>
                  /\ pure_bret.exc = "Exception"
                  /\ msg \in {"Search request was rejected - please check your query",
                              "Rate limit exceeded - please wait before making another request",
                              "Search service temporarily unavailable",
                              "Network error occurred during search",
                              "An unexpected error occurred during search"}
                  /\ ~Contains(msg, pure_resp.text)
            /\ status \in 400..599 =>
                  /\ raised
                  /\ msg = IF status = 422
                           THEN "Search request was rejected - please check your query"
                           ELSE IF status = 429
                           THEN "Rate limit exceeded - please wait before making another request"
                           ELSE "Search service temporarily unavailable"
            /\ pure_resp.kind = "network_error" =>
                  raised /\ msg = "Network error occurred during search"
            /\ (raised /\ status \notin 400..599 /\ pure_resp.kind # "network_error") =>
                  msg \in {"Network error occurred during search",
                           "An unexpected error occurred during search"}
            /\ ~raised => pure_resp.kind = "json" /\ pure_bret.kind = "return"

\* C18, its case: brave_search has raised for an answer of status 429
C18_Witness ==
    /\ pure_fn = "brave_search"
    /\ pure_stage = "output"
    /\ pure_resp.status = 429
    /\ pure_bret.kind = "raise"
    /\ pure_bret.msg = "Rate limit exceeded - please wait before making another request"

\* C18 as stated: every answer with a status outside 200..299, other than 422 and
\* 429, makes brave_search raise "Search service temporarily unavailable".
C18_AnyNon2xx ==
    (/\ pure_fn = "brave_search" /\ pure_stage = "output"
     /\ pure_resp.kind # "network_error"
     /\ pure_resp.status \notin 200..299
     /\ pure_resp.status \notin {422, 429}) =>
        /\ pure_bret.kind = "raise"
        /\ pure_bret.msg = "Search service temporarily unavailable"

\* C19: sanitize_url applied to what sanitize_url returned returns the same.
C19_Idempotent ==
    (pure_fn = "sanitize_url" /\ pure_stage = "output") =>
        /\ pure_out = sanitize_url(pure_arg)
        /\ sanitize_url(pure_out) = pure_out

\* C19, its case: sanitize_url has changed its argument and returned a URL
C19_Witness ==
    /\ pure_fn = "sanitize_url"
    /\ pure_stage = "output"
    /\ pure_out # ""
    /\ pure_out # pure_arg

\* C20: what sanitize_query returns is at most 500 characters long.
C20_BoundedQuery ==
    (pure_fn = "sanitize_query" /\ pure_stage = "output") => Len(pure_out) <= 500

\* C20, its case: a query longer than 500 characters has been cut to 500
C20_Witness ==
    /\ pure_fn = "sanitize_query"
    /\ pure_stage = "output"
    /\ Len(pure_arg) > 500
    /\ Len(pure_out) = 500

\* C21: last_brave_request is written only by the thread that holds rate_limit_lock,
\* at line 260, and that thread still holds the lock after the write; the value
\* written is at least MIN_REQUEST_INTERVAL above the value it replaces, so the
\* value never decreases; a thread sends its search request only after its write
\* and after it has released the lock, and what answers the request changes
\* nothing of it: the value stays written when brave_search raises.
C21_StampUnderLock ==
    /\ [](\A t \in Threads :
             /\ bpc[t] \in {"release", "request", "await"} =>
                   last_brave_request >= StartTime /\ last_brave_request <= now
             /\ bpc[t] \in {"request", "await"} => rate_limit_lock # t
             /\ (bpc[t] = "done" /\ bret[t].exc # "ValueError") =>
                   last_brave_request >= StartTime /\ search_gets # <<>>)
    /\ [][/\ last_brave_request' >= last_brave_request
          /\ \A t \in Threads :
                (bpc[t] = "stamp" /\ bpc'[t] # "stamp") =>
                   /\ rate_limit_lock = t /\ rate_limit_lock' = t
                   /\ last_brave_request' >= last_brave_request + MIN_REQUEST_INTERVAL
                   /\ last_brave_request' = now'
                   /\ search_gets' = search_gets
          /\ last_brave_request' # last_brave_request =>
                \E t \in Threads : bpc[t] = "stamp" /\ bpc'[t] = "release" /\ rate_limit_lock = t
          /\ search_gets' # search_gets =>
                /\ \E t \in Threads : bpc[t] = "request" /\ rate_limit_lock # t
                /\ search_gets'[Len(search_gets')] >= last_brave_request
                /\ last_brave_request' = last_brave_request
          /\ bret' # bret => last_brave_request' = last_brave_request]_vars

\* C21, its case: a second value has been written, one interval or more after the
\* first, and the request of a thread has failed
C21_Witness ==
    /\ last_brave_request >= StartTime + MIN_REQUEST_INTERVAL
    /\ \E t \in Threads :
          /\ bpc[t] = "done"
          /\ bret[t].msg = "Network error occurred during search"

\* C22: in brave_search_and_fetch what fetch_url_content returned for a result, a
\* text or an error string, goes into the report whole when it is at most
\* CONTENT_LENGTH_LIMIT \div max_results characters long (max_results clamped to
\* 1..10), and otherwise as its first CONTENT_LENGTH_LIMIT \div max_results
\* characters followed by "... [Truncated]"; the content line of a result is never
\* longer than that budget and the marker.
C22_ResultBudget ==
    /\ []((op = "brave_search_and_fetch" /\ search_results # <<>>) =>
             /\ max_results \in 1..10
             /\ \A i \in 1..Len(response_parts) :
                   StartsWith(response_parts[i], "   Content: ") =>
                      Len(response_parts[i]) <=
                         Len("   Content: ") + CONTENT_LENGTH_LIMIT \div max_results
                            + Len("... [Truncated]"))
    /\ [][(op = "brave_search_and_fetch" /\ pc = "fc_return") =>
             LET budget == CONTENT_LENGTH_LIMIT \div max_results
                 marker == "... [Truncated]"
                 line == response_parts'[Len(response_parts') - 1]
                 shown == SubSeq(line, Len("   Content: ") + 1, Len(line))
             IN  /\ response_parts' = response_parts \o <<"   Content: " \o shown, "">>
                 /\ IF Len(content) > budget
                    THEN /\ Len(shown) = budget + Len(marker)
                         /\ SubSeq(shown, 1, budget) = SubSeq(content, 1, budget)
                         /\ SubSeq(shown, budget + 1, Len(shown)) = marker
                    ELSE shown = content
                 /\ fetched_count' = fetched_count + 1]_vars

\* C22, its case: with max_results = 3 a content longer than 200 \div 3 = 66
\* characters went into the report as 66 characters and the marker
C22_Witness ==
    /\ op = "brave_search_and_fetch"
    /\ pc = "orch_loop"
    /\ max_results = 3
    /\ fetched_count = 1
    /\ Len(content) > 66
    /\ \E i \in 1..Len(response_parts) :
          response_parts[i] = "   Content: " \o SubSeq(content, 1, 66) \o "... [Truncated]"
====
